---- MODULE Spec2Model ----
(***************************************************************************)
(* Quick Paste (src/src/main.py): the paste lifecycle manager.             *)
(*                                                                         *)
(* The program's state is the in-memory index `pastes` (an insertion       *)
(* ordered dict), the content files DATA_DIR/pastes/<id>, the snapshot     *)
(* file DATA_DIR/index.json and the wall clock.  Every endpoint is an      *)
(* `async def` without an await, so the event loop runs one handler at a   *)
(* time from entry to return; requests that have arrived wait in           *)
(* `inflight` until the loop picks them.  A handler is nevertheless split  *)
(* into the steps at which it touches memory or disk, so that the states   *)
(* inside a handler (and the faults that abort it there) are visible.      *)
(***************************************************************************)
EXTENDS Integers, Sequences, FiniteSets, Bags, TLC

VARIABLES
    pastes,      \* main.py:33  the in-memory index, in insertion order
    files,       \* DATA_DIR/pastes/<id>: the bytes of each content file
    index_file,  \* DATA_DIR/index.json: the snapshot text
    clock,       \* datetime.utcnow(), in hours
    inflight,    \* requests received and not yet picked by the event loop
    pc,          \* where the running handler (or the startup hook) stands
    frame,       \* the running handler's request and locals
    hist         \* history: per id, what was submitted, served and removed

vars == <<pastes, files, index_file, clock, inflight, pc, frame, hist>>

----------------------------------------------------------------------------
(* Bounds of the model *)

\* the clock stops advancing at MaxTime hours
MaxTime == 2

\* requests that may be in flight at once in the concurrent specification
MaxInflight == 2

\* PASTE_MAX_SIZE, scaled down (main.py:29; 500_000 by default)
MAX_SIZE == 2

\* the identifiers generate_id can draw (36^8 in the program)
Ids == {"p1", "p2"}

----------------------------------------------------------------------------
(* Optional values: Python's None and a present value *)

None == <<>>

Some(x) == <<x>>

IsNone(o) == Len(o) = 0

Val(o) == o[1]

----------------------------------------------------------------------------
(* Text: a str is a sequence of characters, a file a sequence of bytes *)

\* the characters the requests are built from: a letter, carriage return,
\* line feed and a two-byte character (U+00E9)
Chars == {"a", "CR", "LF", "e'"}

\* str.encode("utf-8") of one character
EncodeChar(c) ==
    CASE c = "a"  -> <<"61">>
      [] c = "CR" -> <<"0D">>
      [] c = "LF" -> <<"0A">>
      [] c = "e'" -> <<"C3", "A9">>

RECURSIVE Encode(_)
\* the bytes write_text stores for a str (os.linesep is "\n": no translation)
Encode(s) ==
    IF s = <<>> THEN <<>> ELSE EncodeChar(Head(s)) \o Encode(Tail(s))

RECURSIVE Decode(_)
\* the str the bytes of a file decode to
Decode(b) ==
    IF b = <<>> THEN <<>>
    ELSE IF Head(b) = "C3" THEN <<"e'">> \o Decode(Tail(Tail(b)))
    ELSE IF Head(b) = "0D" THEN <<"CR">> \o Decode(Tail(b))
    ELSE IF Head(b) = "0A" THEN <<"LF">> \o Decode(Tail(b))
    ELSE <<"a">> \o Decode(Tail(b))

RECURSIVE UniversalNewlines(_)
\* text mode with newline=None on input: "\r\n" and "\r" are read as "\n"
UniversalNewlines(s) ==
    IF s = <<>> THEN <<>>
    ELSE IF Head(s) = "CR"
         THEN IF Len(s) >= 2 /\ s[2] = "LF"
              THEN <<"LF">> \o UniversalNewlines(Tail(Tail(s)))
              ELSE <<"LF">> \o UniversalNewlines(Tail(s))
         ELSE <<Head(s)>> \o UniversalNewlines(Tail(s))

\* Path.write_text(content): the bytes the file holds afterwards
WriteText(s) == Encode(s)

\* Path.read_text(): decode, then universal newlines
ReadText(b) == UniversalNewlines(Decode(b))

\* len(str.encode()): the byte length of a str
ByteLen(s) == Len(Encode(s))

\* str.isspace() of one character
IsSpace(c) == c \in {"CR", "LF"}

\* `not content.strip()`: empty or all whitespace
IsBlank(s) == \A i \in 1..Len(s) : IsSpace(s[i])

----------------------------------------------------------------------------
(* Timestamps *)

\* datetime.isoformat(): the text of a timestamp, here <<day, hour>>
Isoformat(t) == <<t \div 24, t % 24>>

\* datetime.fromisoformat()
FromIsoformat(s) == s[1] * 24 + s[2]

----------------------------------------------------------------------------
(* The ordered dict `pastes`: a sequence of [k, v] items *)

Keys(d) == {d[i].k : i \in 1..Len(d)}

Lookup(d, k) == d[CHOOSE i \in 1..Len(d) : d[i].k = k].v

\* del d[k]
DictDel(d, k) == SelectSeq(d, LAMBDA e : e.k # k)

\* d[k] = v: in place when k is a key, appended otherwise
DictSet(d, k, v) ==
    IF k \in Keys(d)
    THEN [i \in 1..Len(d) |-> IF d[i].k = k THEN [k |-> k, v |-> v] ELSE d[i]]
    ELSE Append(d, [k |-> k, v |-> v])

\* json.dumps(pastes): the members of the object, in order
JsonDumps(d) == [i \in 1..Len(d) |-> <<d[i].k, d[i].v>>]

\* json.loads(text)
JsonLoads(j) == [i \in 1..Len(j) |-> [k |-> j[i][1], v |-> j[i][2]]]

\* the index a fresh process holds after load_index reads this snapshot file
SnapshotIndex(f) == IF IsNone(f) THEN <<>> ELSE JsonLoads(Val(f))

----------------------------------------------------------------------------
(* Requests *)

\* a PasteCreate body (main.py:115-120)
PasteCreate(content, language, title, expires_in_hours, burn_after_read) ==
    [content |-> content, language |-> language, title |-> title,
     expires_in_hours |-> expires_in_hours,
     burn_after_read |-> burn_after_read]

\* the contents submitted: empty, blank, plain, with a carriage return,
\* multi-byte within the character limit, too long, blank and too long
Contents ==
    {<<>>, <<"CR">>, <<"a">>, <<"a", "CR">>, <<"e'", "e'">>,
     <<"a", "a", "a">>, <<"CR", "CR", "CR">>}

\* the values of expires_in_hours submitted: null, negative, zero, positive
ExpiresIn == {None, Some(-1), Some(0), Some(1)}

\* the bodies submitted: every content with the other fields plain, every
\* expiry and burn flag on a plain content, and one titled body
DataSet ==
    {PasteCreate(c, None, None, None, FALSE) : c \in Contents}
    \cup {PasteCreate(<<"a">>, None, None, e, b) :
            e \in ExpiresIn, b \in BOOLEAN}
    \cup {PasteCreate(<<"a">>, Some("py"), Some("t"), None, FALSE)}

\* the bodies submitted where requests overlap or writes fail: a plain
\* content, kept or burnt after a read, never expiring or expiring in an hour
DataConc ==
    {PasteCreate(<<"a">>, None, None, e, b) :
        e \in {None, Some(1)}, b \in BOOLEAN}

\* the bodies submitted where writes may fail: one burnt after a read, one
\* expiring in an hour
DataFault ==
    {PasteCreate(<<"a">>, None, None, None, TRUE),
     PasteCreate(<<"a">>, None, None, Some(1), FALSE)}

ReadOps == {"raw", "html"}

\* the requests the routes accept (main.py:147, 202, 223, 279)
Requests(D) ==
    {[op |-> "create", data |-> d] : d \in D}
    \cup {[op |-> o, paste_id |-> i] : o \in ReadOps \cup {"delete"}, i \in Ids}

\* where the startup hook stands while it runs; no request is served then
StartupPcs == {"load_index", "load_sweep", "load_save_index", "started"}

\* the state a handler (or the startup hook) found on entry: history only
Entry ==
    [pastes |-> pastes, files |-> files, index_file |-> index_file,
     hist |-> hist]

\* the history of an id that was never allocated
NoHist == [submitted |-> None, served |-> 0, removed |-> "no"]

\* the history once the record of k was removed: "deleted", "burned" or
\* "expired"
Forgotten(h, k, how) == [h EXCEPT ![k].submitted = None, ![k].removed = how]

----------------------------------------------------------------------------
(* State after construction: `pastes = {}` at import, an empty data       *)
(* directory, and the startup hook has found no index.json                *)

Init ==
    /\ pastes = <<>>
    /\ files = [i \in Ids |-> None]
    /\ index_file = None
    /\ clock = 0
    /\ inflight = EmptyBag
    /\ pc = "idle"
    /\ frame = None
    /\ hist = [i \in Ids |-> NoHist]

----------------------------------------------------------------------------
(* The server loop *)

\* a request is received while fewer than cap are in flight
Arrive(R, cap) ==
    /\ pc \notin StartupPcs
    /\ BagCardinality(inflight) + (IF pc = "idle" THEN 0 ELSE 1) < cap
    /\ \E r \in R : inflight' = inflight (+) SetToBag({r})
    /\ UNCHANGED <<pastes, files, index_file, clock, pc, frame, hist>>

\* the event loop starts the handler of one received request
Dispatch ==
    /\ pc = "idle"
    /\ \E r \in BagToSet(inflight) :
        /\ inflight' = inflight (-) SetToBag({r})
        /\ frame' = [req |-> r, entry |-> Entry]
        /\ pc' = CASE r.op = "create" -> "create_check"
                   [] r.op \in ReadOps -> "read_lookup"
                   [] r.op = "delete" -> "delete_check"
                   [] r.op = "list" -> "list"
                   [] r.op \in {"health", "root"} -> "info"
    /\ UNCHANGED <<pastes, files, index_file, clock, hist>>

\* the handler returns or raises HTTPException: the response is ready
Respond(status, body) ==
    /\ pc' = "ret"
    /\ frame' = [req |-> frame.req, entry |-> frame.entry,
                 generated |-> IF "paste_id" \in DOMAIN frame
                               THEN Some(frame.paste_id) ELSE None,
                 status |-> status, body |-> body]

\* the response is sent and the loop is free again
Return ==
    /\ pc = "ret"
    /\ pc' = "idle"
    /\ frame' = None
    /\ UNCHANGED <<pastes, files, index_file, clock, inflight, hist>>

\* an hour passes
Tick ==
    /\ pc = "idle"
    /\ clock < MaxTime
    /\ clock' = clock + 1
    /\ UNCHANGED <<pastes, files, index_file, inflight, pc, frame, hist>>

----------------------------------------------------------------------------
(* create_paste, main.py:147-182 *)

\* main.py:150  len(data.content) > MAX_SIZE: the length in characters
TooLarge(content) == Len(content) > MAX_SIZE

\* a plausible slip kept for comparison: only the empty string is refused
IsEmptyOnlyEmpty(content) == content = <<>>

\* main.py:153  not data.content.strip()
IsEmpty(content) == IsBlank(content)

CreateCheck ==
    /\ pc = "create_check"
    /\ LET content == frame.req.data.content IN
        IF TooLarge(content)
        THEN Respond(413, "Content too large")
        ELSE IF IsEmpty(content)
        THEN Respond(400, "Content cannot be empty")
        ELSE /\ pc' = "generate_id"
             /\ frame' = frame
    /\ UNCHANGED <<pastes, files, index_file, clock, inflight, hist>>

\* a plausible slip kept for comparison: the drawn id is not checked
IdIsFreeUnchecked(d, i) == TRUE

\* main.py:67  paste_id not in pastes
IdIsFree(d, i) == i \notin Keys(d)

\* generate_id, main.py:63-68: one turn of the loop draws an id and returns
\* it when it is free, and goes round again when it is not
GenerateId ==
    /\ pc = "generate_id"
    /\ \E i \in Ids :
        IF IdIsFree(pastes, i)
        THEN /\ pc' = "create_insert"
             /\ frame' = [req |-> frame.req, entry |-> frame.entry,
                          paste_id |-> i]
        ELSE UNCHANGED <<pc, frame>>
    /\ UNCHANGED <<pastes, files, index_file, clock, inflight, hist>>

\* a plausible slip kept for comparison: zero and negative hours also expire
ExpiresAtAnyHours(now, hours) ==
    IF IsNone(hours) THEN None ELSE Some(Isoformat(now + Val(hours)))

\* main.py:159-161  expires_at from expires_in_hours
ExpiresAt(now, hours) ==
    IF ~IsNone(hours) /\ Val(hours) # 0 /\ Val(hours) > 0
    THEN Some(Isoformat(now + Val(hours)))
    ELSE None

\* main.py:163-170  the record stored for a body
Meta(data, now) ==
    [title |-> data.title,
     language |-> data.language,
     created_at |-> Isoformat(now),
     expires_at |-> ExpiresAt(now, data.expires_in_hours),
     burn_after_read |-> data.burn_after_read,
     size |-> Len(data.content)]

\* main.py:157-170  the record enters the in-memory index
CreateInsert ==
    /\ pc = "create_insert"
    /\ LET id == frame.paste_id
           data == frame.req.data
       IN  /\ pastes' = DictSet(pastes, id, Meta(data, clock))
           /\ hist' = [hist EXCEPT ![id] =
                         [submitted |-> Some(data.content), served |-> 0,
                          removed |-> "no"]]
    /\ pc' = "save_content"
    /\ UNCHANGED <<files, index_file, clock, inflight, frame>>

\* save_content, main.py:71-73 (called at 172)
CreateSaveContent ==
    /\ pc = "save_content"
    /\ files' = [files EXCEPT ![frame.paste_id] =
                    Some(WriteText(frame.req.data.content))]
    /\ pc' = "create_save_index"
    /\ UNCHANGED <<pastes, index_file, clock, inflight, frame, hist>>

\* save_index, main.py:57-60: index.json once the index d is dumped into it
SavedIndex(d) == Some(JsonDumps(d))

\* main.py:173-182  the snapshot is written and the PasteResponse built
CreateSaveIndex ==
    /\ pc = "create_save_index"
    /\ index_file' = SavedIndex(pastes)
    /\ LET id == frame.paste_id
           meta == Lookup(pastes, id)
       IN  Respond(200, [id |-> id,
                         url |-> <<"BASE_URL", id>>,
                         raw_url |-> <<"BASE_URL", id, "raw">>,
                         created_at |-> meta.created_at,
                         expires_at |-> meta.expires_at,
                         language |-> frame.req.data.language])
    /\ UNCHANGED <<pastes, files, clock, inflight, hist>>

----------------------------------------------------------------------------
(* get_paste_raw, main.py:202-220, and get_paste_html, main.py:223-276 *)

\* a plausible slip kept for comparison: a missing file reads as empty text
LoadContentEmptyWhenMissing(id) ==
    IF IsNone(files[id]) THEN Some(<<>>) ELSE Some(ReadText(Val(files[id])))

\* a plausible slip kept for comparison: the content of a record whose
\* expiry has passed is not served
LoadContentUnlessExpired(id) ==
    IF \/ IsNone(files[id])
       \/ /\ id \in Keys(pastes)
          /\ ~IsNone(Lookup(pastes, id).expires_at)
          /\ FromIsoformat(Val(Lookup(pastes, id).expires_at)) < clock
    THEN None
    ELSE Some(ReadText(Val(files[id])))

\* load_content, main.py:76-80
LoadContent(id) ==
    IF IsNone(files[id]) THEN None ELSE Some(ReadText(Val(files[id])))

\* what the endpoint returns for a content: the text itself (main.py:220),
\* or the page built around its highlighted text (main.py:234-276)
ReadBody(op, id, meta, content) ==
    IF op = "raw"
    THEN [content |-> content]
    ELSE [content |-> content,
          title |-> IF IsNone(meta.title) THEN id ELSE Val(meta.title),
          language |-> meta.language,
          created |-> meta.created_at]

\* the 200 response of a read; the history counts the contents served from
\* a burn-after-read record
RespondContent(id, meta, content) ==
    /\ Respond(200, ReadBody(frame.req.op, id, meta, content))
    /\ hist' = IF meta.burn_after_read
               THEN [hist EXCEPT ![id].served = @ + 1]
               ELSE hist

\* a plausible slip kept for comparison: the burn flag is never honoured
MustBurnNever(meta) == FALSE

\* a plausible slip kept for comparison: every read burns
MustBurnAlways(meta) == TRUE

\* main.py:215, 240  meta.get("burn_after_read")
MustBurn(meta) == meta.burn_after_read

\* main.py:205-215 and 226-240: the index and the content file are looked up
ReadLookup ==
    /\ pc = "read_lookup"
    /\ LET id == frame.req.paste_id IN
        IF id \notin Keys(pastes)
        THEN /\ Respond(404, "Paste not found")
             /\ hist' = hist
        ELSE IF IsNone(LoadContent(id))
        THEN /\ Respond(404, "Paste content not found")
             /\ hist' = hist
        ELSE LET content == Val(LoadContent(id))
                 meta == Lookup(pastes, id)
             IN  IF MustBurn(meta)
                 THEN /\ pc' = "read_burn"
                      /\ frame' = [req |-> frame.req, entry |-> frame.entry,
                                   content |-> content, meta |-> meta]
                      /\ hist' = hist
                 ELSE RespondContent(id, meta, content)
    /\ UNCHANGED <<pastes, files, index_file, clock, inflight>>

\* a plausible slip kept for comparison: the burn forgets the content file
ReadBurnKeepsFile ==
    /\ pc = "read_burn"
    /\ pastes' = DictDel(pastes, frame.req.paste_id)
    /\ hist' = Forgotten(hist, frame.req.paste_id, "burned")
    /\ pc' = "read_save_index"
    /\ UNCHANGED <<files, index_file, clock, inflight, frame>>

\* main.py:216-217 and 241-242: the record and the file are removed
ReadBurn ==
    /\ pc = "read_burn"
    /\ LET id == frame.req.paste_id IN
        /\ pastes' = DictDel(pastes, id)
        /\ files' = [files EXCEPT ![id] = None]
        /\ hist' = Forgotten(hist, id, "burned")
    /\ pc' = "read_save_index"
    /\ UNCHANGED <<index_file, clock, inflight, frame>>

\* a plausible slip kept for comparison: the content is returned without
\* saving the index
ReadSaveIndexSkipped ==
    /\ pc = "read_save_index"
    /\ RespondContent(frame.req.paste_id, frame.meta, frame.content)
    /\ UNCHANGED <<pastes, files, index_file, clock, inflight>>

\* main.py:218-220 and 243-276: the snapshot is written, the content returned
ReadSaveIndex ==
    /\ pc = "read_save_index"
    /\ index_file' = SavedIndex(pastes)
    /\ RespondContent(frame.req.paste_id, frame.meta, frame.content)
    /\ UNCHANGED <<pastes, files, clock, inflight>>

----------------------------------------------------------------------------
(* delete_paste, main.py:279-289 *)

\* a plausible slip kept for comparison: the content file is left behind
UnlinkedNot(fs, id) == fs

\* main.py:286  (DATA_DIR / "pastes" / paste_id).unlink(missing_ok=True)
Unlinked(fs, id) == [fs EXCEPT ![id] = None]

\* main.py:282-286: the record and the file are removed
DeleteCheck ==
    /\ pc = "delete_check"
    /\ LET id == frame.req.paste_id IN
        IF id \notin Keys(pastes)
        THEN /\ Respond(404, "Paste not found")
             /\ UNCHANGED <<pastes, files, hist>>
        ELSE /\ pastes' = DictDel(pastes, id)
             /\ files' = Unlinked(files, id)
             /\ hist' = Forgotten(hist, id, "deleted")
             /\ pc' = "delete_save_index"
             /\ frame' = frame
    /\ UNCHANGED <<index_file, clock, inflight>>

\* main.py:287-289: the snapshot is written and the confirmation returned
DeleteSaveIndex ==
    /\ pc = "delete_save_index"
    /\ index_file' = SavedIndex(pastes)
    /\ Respond(200, [ok |-> TRUE, deleted |-> frame.req.paste_id])
    /\ UNCHANGED <<pastes, files, clock, inflight, hist>>

----------------------------------------------------------------------------
(* Process restart and the startup hook, main.py:108-112 and 41-54 *)

\* the process stops between requests and starts again: memory is lost
\* (`pastes = {}`, main.py:33), the requests in flight are dropped
Restart ==
    /\ pc = "idle"
    /\ pastes' = <<>>
    /\ inflight' = EmptyBag
    /\ pc' = "load_index"
    /\ frame' = None
    /\ UNCHANGED <<files, index_file, clock, hist>>

\* a plausible slip kept for comparison: records expiring now are swept too
IsExpiredInclusive(meta, now) ==
    /\ ~IsNone(meta.expires_at)
    /\ FromIsoformat(Val(meta.expires_at)) <= now

\* main.py:49  v.get("expires_at") and fromisoformat(v["expires_at"]) < now
IsExpired(meta, now) ==
    /\ ~IsNone(meta.expires_at)
    /\ FromIsoformat(Val(meta.expires_at)) < now

\* main.py:48-49  the expired keys, in index order
Expired(d, now) ==
    LET hit == SelectSeq(d, LAMBDA e : IsExpired(e.v, now))
    IN  [i \in 1..Len(hit) |-> hit[i].k]

\* main.py:43-49: the snapshot, when there is one, is read and the expired
\* keys listed
LoadIndex ==
    /\ pc = "load_index"
    /\ IF IsNone(index_file)
       THEN /\ pastes' = pastes
            /\ frame' = [entry |-> Entry, loaded |-> FALSE]
            /\ pc' = "started"
       ELSE LET loaded == JsonLoads(Val(index_file))
                expired == Expired(loaded, clock)
            IN  /\ pastes' = loaded
                /\ frame' = [entry |-> Entry, loaded |-> TRUE, now |-> clock,
                             expired |-> expired, todo |-> expired]
                /\ pc' = IF expired = <<>> THEN "started" ELSE "load_sweep"
    /\ UNCHANGED <<files, index_file, clock, inflight, hist>>

\* a plausible slip kept for comparison: the sweep drops the record and
\* leaves its content file
LoadSweepKeepsFile ==
    /\ pc = "load_sweep"
    /\ LET k == Head(frame.todo) IN
        /\ pastes' = DictDel(pastes, k)
        /\ hist' = Forgotten(hist, k, "expired")
        /\ frame' = [frame EXCEPT !.todo = Tail(frame.todo)]
        /\ pc' = IF Tail(frame.todo) = <<>>
                 THEN "load_save_index" ELSE "load_sweep"
    /\ UNCHANGED <<files, index_file, clock, inflight>>

\* main.py:50-52: one turn of the loop removes an expired record and its file
LoadSweep ==
    /\ pc = "load_sweep"
    /\ LET k == Head(frame.todo) IN
        /\ pastes' = DictDel(pastes, k)
        /\ files' = Unlinked(files, k)
        /\ hist' = Forgotten(hist, k, "expired")
        /\ frame' = [frame EXCEPT !.todo = Tail(frame.todo)]
        /\ pc' = IF Tail(frame.todo) = <<>>
                 THEN "load_save_index" ELSE "load_sweep"
    /\ UNCHANGED <<index_file, clock, inflight>>

\* main.py:53-54: the cleaned index is saved when something was removed
LoadSaveIndex ==
    /\ pc = "load_save_index"
    /\ index_file' = SavedIndex(pastes)
    /\ pc' = "started"
    /\ UNCHANGED <<pastes, files, clock, inflight, frame, hist>>

\* main.py:112: startup is complete and requests are served
Started ==
    /\ pc = "started"
    /\ pc' = "idle"
    /\ frame' = None
    /\ UNCHANGED <<pastes, files, index_file, clock, inflight, hist>>

----------------------------------------------------------------------------
(* Storage faults: write_text raises OSError (disk full, read-only data    *)
(* directory) and the handler is aborted with a 500 where it stands        *)

\* main.py:73 raises inside create_paste at line 172
SaveContentError ==
    /\ pc = "save_content"
    /\ Respond(500, "Internal Server Error")
    /\ UNCHANGED <<pastes, files, index_file, clock, inflight, hist>>

\* main.py:60 raises inside a handler at line 173, 218, 243 or 287
SaveIndexError ==
    /\ pc \in {"create_save_index", "read_save_index", "delete_save_index"}
    /\ Respond(500, "Internal Server Error")
    /\ UNCHANGED <<pastes, files, index_file, clock, inflight, hist>>

----------------------------------------------------------------------------
(* list_pastes, main.py:185-199, root, main.py:132-144, and health,       *)
(* main.py:292-294 *)

\* the values of limit submitted: negative, zero, fewer than the records,
\* the default
Limits == {-1, 0, 1, 50}

\* the requests of the endpoints that only report
InfoRequests ==
    {[op |-> "list", limit |-> n] : n \in Limits}
    \cup {[op |-> "health"], [op |-> "root"]}

\* s[:n] of a list: the first n items, or all but the last -n when n < 0
Slice(s, n) ==
    IF n >= 0
    THEN SubSeq(s, 1, IF n < Len(s) THEN n ELSE Len(s))
    ELSE SubSeq(s, 1, IF Len(s) + n > 0 THEN Len(s) + n ELSE 0)

\* main.py:190-198  the summary of one record
Summary(e) ==
    [id |-> e.k,
     url |-> <<"BASE_URL", e.k>>,
     title |-> e.v.title,
     language |-> e.v.language,
     size |-> e.v.size,
     created_at |-> e.v.created_at,
     expires_at |-> e.v.expires_at]

\* main.py:186-199
ListPastes ==
    /\ pc = "list"
    /\ LET items == Slice(pastes, frame.req.limit) IN
        Respond(200, [pastes |-> [i \in 1..Len(items) |-> Summary(items[i])],
                      total |-> Len(pastes)])
    /\ UNCHANGED <<pastes, files, index_file, clock, inflight, hist>>

\* main.py:133-144 and 293-294: the number of pastes is reported
Info ==
    /\ pc = "info"
    /\ IF frame.req.op = "health"
       THEN Respond(200, [status |-> "ok", pastes |-> Len(pastes)])
       ELSE Respond(200, [name |-> "Quick Paste", total_pastes |-> Len(pastes),
                          max_size_bytes |-> MAX_SIZE])
    /\ UNCHANGED <<pastes, files, index_file, clock, inflight, hist>>

----------------------------------------------------------------------------
(* Crash: the process dies between two statements of a handler or of the   *)
(* startup hook and is started again; memory and the requests in flight    *)
(* are lost, the files are as the completed statements left them           *)

Crash ==
    /\ pc # "idle"
    /\ pastes' = <<>>
    /\ inflight' = EmptyBag
    /\ pc' = "load_index"
    /\ frame' = None
    /\ UNCHANGED <<files, index_file, clock, hist>>

----------------------------------------------------------------------------
(* Specifications *)

\* one step of the server with bodies D and at most cap requests in flight
Step(D, cap) ==
    \/ Arrive(Requests(D), cap)
    \/ Dispatch
    \/ CreateCheck
    \/ GenerateId
    \/ CreateInsert
    \/ CreateSaveContent
    \/ CreateSaveIndex
    \/ ReadLookup
    \/ ReadBurn
    \/ ReadSaveIndex
    \/ DeleteCheck
    \/ DeleteSaveIndex
    \/ Return
    \/ Tick
    \/ Restart
    \/ LoadIndex
    \/ LoadSweep
    \/ LoadSaveIndex
    \/ Started

\* requests served one after the other, reliable storage
Next == Step(DataSet, 1)

Spec == Init /\ [][Next]_vars

\* requests overlapping in flight, reliable storage
NextConc == Step(DataConc, MaxInflight)

SpecConc == Init /\ [][NextConc]_vars

\* requests served one after the other, writes that may fail
NextFault == Step(DataFault, 1) \/ SaveContentError \/ SaveIndexError

SpecFault == Init /\ [][NextFault]_vars

\* requests served one after the other, reliable storage, with the
\* endpoints that only report
NextFull == Step(DataSet, 1) \/ Arrive(InfoRequests, 1) \/ ListPastes \/ Info

SpecFull == Init /\ [][NextFull]_vars

\* requests served one after the other, with crashes
NextCrash == Step(DataFault, 1) \/ Crash

SpecCrash == Init /\ [][NextCrash]_vars

----------------------------------------------------------------------------
(* Properties *)

\* the response of a handler of one of the ops is ready
AtRet(ops) == pc = "ret" /\ frame.req.op \in ops

\* the id a read or delete request names
ReqId == frame.req.paste_id

\* the keys of the snapshot on disk
SnapshotKeys == Keys(SnapshotIndex(index_file))

\* id i has neither a record, nor a content file, nor a snapshot entry
Absent(i) ==
    /\ i \notin Keys(pastes)
    /\ IsNone(files[i])
    /\ i \notin SnapshotKeys

\* C1 as claimed: once the content of a burn-after-read paste has been
\* served, every later read or delete of the id answers 404, which requires
\* that the id never enters the index again.
C1_NeverAgain ==
    [][\A i \in Ids : hist[i].served >= 1 => i \notin Keys(pastes')]_vars

\* C1 amended: a read of a burn-after-read paste whose content lookup
\* succeeds, raw or rendered, answers 200 with the content it read, and when
\* that response is ready the record, the content file and the snapshot entry
\* are already gone; from then on, until a create allocates the id again, the
\* id stays absent and every read or delete of it answers 404.
C1_BurnOnFirstRead ==
    /\ (/\ AtRet(ReadOps)
        /\ ReqId \in Keys(frame.entry.pastes)
        /\ ~IsNone(frame.entry.files[ReqId])
        /\ Lookup(frame.entry.pastes, ReqId).burn_after_read)
       => /\ frame.status = 200
          /\ frame.body.content = ReadText(Val(frame.entry.files[ReqId]))
          /\ Absent(ReqId)
    /\ \A i \in Ids : hist[i].served >= 1 => Absent(i)
    /\ (AtRet(ReadOps \cup {"delete"}) /\ frame.entry.hist[ReqId].served >= 1)
       => frame.status = 404

\* C1 witness: a read or delete of an id whose burn-after-read paste was
\* served before has been answered 404
C1_Witness ==
    /\ AtRet(ReadOps \cup {"delete"})
    /\ frame.entry.hist[ReqId].served = 1
    /\ frame.status = 404

\* C2: whatever the order in which overlapping reads of a burn-after-read
\* paste are served, its content is returned at most once, and a read that
\* the loop starts after the content was returned answers 404.
C2_AtMostOneReader ==
    /\ \A i \in Ids : hist[i].served <= 1
    /\ (AtRet(ReadOps) /\ frame.entry.hist[ReqId].served >= 1)
       => frame.status = 404

\* C2 witness: a read has returned the content of a burn-after-read paste
\* while another read of the same id is in flight
C2_Witness ==
    /\ AtRet(ReadOps)
    /\ frame.status = 200
    /\ hist[ReqId].served = 1
    /\ \E r \in BagToSet(inflight) :
        r.op \in ReadOps /\ r.paste_id = ReqId

\* C3: the id a create inserts is not a key of the index at the insert; the
\* insert appends one record and changes no other, the content file it then
\* writes did not exist, and no other content file changes.
C3_FreshId ==
    /\ pc = "create_insert" => frame.paste_id \notin Keys(pastes)
    /\ pc \in {"save_content", "create_save_index"} =>
        /\ Len(pastes) = Len(frame.entry.pastes) + 1
        /\ SubSeq(pastes, 1, Len(pastes) - 1) = frame.entry.pastes
        /\ pastes[Len(pastes)].k = frame.paste_id
        /\ IsNone(frame.entry.files[frame.paste_id])
        /\ \A i \in Ids \ {frame.paste_id} : files[i] = frame.entry.files[i]
    /\ Cardinality(Keys(pastes)) = Len(pastes)

\* C3 witness: a create is about to insert its id while a paste is live and
\* another create is in flight
C3_Witness ==
    /\ pc = "create_insert"
    /\ pastes # <<>>
    /\ \E r \in BagToSet(inflight) : r.op = "create"

\* C4: between operations, an id is in the index if and only if its content
\* file exists (as claimed; the code breaks it when a write fails)
C4_IndexIffBlob ==
    pc = "idle" =>
        \A i \in Ids : (i \in Keys(pastes)) <=> ~IsNone(files[i])

\* C5: in every state, also inside a create, an id in the index has its
\* content file written (as claimed; the code inserts the record first)
C5_ContentBeforeIndex ==
    \A i \in Keys(pastes) : ~IsNone(files[i])

\* C6: a raw read answers exactly the content that was submitted for the id
\* (as claimed; the code reads the file back with newline translation)
C6_RoundTrip ==
    (AtRet({"raw"}) /\ frame.status = 200) =>
        frame.body.content = Val(frame.entry.hist[ReqId].submitted)

\* ids that were removed and not allocated again stay absent, and a read or
\* delete of such an id answers 404
RemovedStaysGone ==
    /\ \A i \in Ids :
        hist[i].removed # "no" => i \notin Keys(pastes) /\ IsNone(files[i])
    /\ (AtRet(ReadOps \cup {"delete"}) /\ frame.entry.hist[ReqId].removed # "no")
       => frame.status = 404

\* C7 as claimed: after the delete of a live id every subsequent read or
\* delete of the id answers 404, which requires that a deleted id never
\* enters the index again.
C7_NeverAgain ==
    [][\A i \in Ids :
        hist[i].removed = "deleted" => i \notin Keys(pastes')]_vars

\* C7 amended: a delete of an id that is not in the index answers 404 and
\* leaves the index, the content files and the snapshot as they were; a delete
\* of a live id answers 200 having removed the record and the content file,
\* written the snapshot of the new index and changed no other record or file;
\* afterwards, until a create allocates the id again, reads and deletes of
\* the id answer 404.
C7_Delete ==
    /\ (AtRet({"delete"}) /\ ReqId \notin Keys(frame.entry.pastes)) =>
        /\ frame.status = 404
        /\ pastes = frame.entry.pastes
        /\ files = frame.entry.files
        /\ index_file = frame.entry.index_file
    /\ (AtRet({"delete"}) /\ ReqId \in Keys(frame.entry.pastes)) =>
        /\ frame.status = 200
        /\ pastes = SelectSeq(frame.entry.pastes, LAMBDA e : e.k # ReqId)
        /\ \A i \in Ids :
            files[i] = IF i = ReqId THEN None ELSE frame.entry.files[i]
        /\ index_file = Some(JsonDumps(pastes))
    /\ RemovedStaysGone

\* C7 witness: a delete of a live id has been answered while another paste
\* stays live
C7_Witness ==
    /\ AtRet({"delete"})
    /\ frame.status = 200
    /\ pastes # <<>>

\* C8: a create answers 413 exactly when the byte length of its content
\* exceeds the maximum (as claimed; the code compares the character count)
C8_TooLargeByBytes ==
    AtRet({"create"}) =>
        (frame.status = 413 <=> ByteLen(frame.req.data.content) > MAX_SIZE)

\* a rejected create has generated no id and left the index, the content
\* files, the snapshot and the history as they were
RejectedChangesNothing ==
    (AtRet({"create"}) /\ frame.status \in {400, 413}) =>
        /\ IsNone(frame.generated)
        /\ pastes = frame.entry.pastes
        /\ files = frame.entry.files
        /\ index_file = frame.entry.index_file
        /\ hist = frame.entry.hist

\* C9 as claimed: every create with empty or all-whitespace content answers
\* 400 (EmptyContent), and a rejected create changes nothing
C9_BlankIsEmptyContent ==
    /\ (AtRet({"create"}) /\ IsBlank(frame.req.data.content))
       => frame.status = 400
    /\ RejectedChangesNothing

\* C9 amended: a create with empty or all-whitespace content of at most
\* MAX_SIZE characters answers 400 (EmptyContent), one of more than MAX_SIZE
\* characters answers 413 (ContentTooLarge) whatever it holds, and a rejected
\* create has generated no id and changed nothing.
C9_BlankWithinLimit ==
    /\ (/\ AtRet({"create"})
        /\ IsBlank(frame.req.data.content)
        /\ Len(frame.req.data.content) <= MAX_SIZE)
       => frame.status = 400
    /\ (AtRet({"create"}) /\ Len(frame.req.data.content) > MAX_SIZE)
       => frame.status = 413
    /\ RejectedChangesNothing

\* C9 witness: a create of a whitespace-only content has been answered 400
C9_Witness ==
    /\ AtRet({"create"})
    /\ frame.req.data.content = <<"CR">>
    /\ frame.status = 400

\* the record expires before the time t
Before(meta, t) ==
    ~IsNone(meta.expires_at) /\ FromIsoformat(Val(meta.expires_at)) < t

\* C10: when load() has completed, no record of the index expires before the
\* load time; the index is the snapshot that was read without the records
\* that expired before the load time, the others unchanged and in order; the
\* content file of every removed record is gone and the others are untouched;
\* the snapshot on disk gives back the cleaned index; and reads and deletes
\* of a removed id answer 404.
C10_LoadSweep ==
    /\ pc = "started" =>
        LET read == SnapshotIndex(frame.entry.index_file) IN
        /\ \A i \in 1..Len(pastes) : ~Before(pastes[i].v, clock)
        /\ pastes = SelectSeq(read, LAMBDA e : ~Before(e.v, clock))
        /\ \A k \in Keys(read) \ Keys(pastes) : IsNone(files[k])
        /\ \A k \in Ids :
            k \notin Keys(read) \ Keys(pastes) => files[k] = frame.entry.files[k]
        /\ SnapshotIndex(index_file) = pastes
    /\ RemovedStaysGone

\* C10 witness: load() has completed having removed an expired record and
\* kept one that expires exactly at the load time
C10_Witness ==
    /\ pc = "started"
    /\ frame.loaded
    /\ frame.expired # <<>>
    /\ \E i \in 1..Len(pastes) :
        pastes[i].v.expires_at = Some(Isoformat(clock))

\* the index, the content files and the snapshot are as the handler found
\* them
Untouched ==
    /\ pastes = frame.entry.pastes
    /\ files = frame.entry.files
    /\ index_file = frame.entry.index_file

\* C11: a list request answers at most limit entries (none when limit is
\* zero or negative), and they are the first records of the index in order
\* (as claimed; the code slices with a negative limit)
C11_ListAtMostLimit ==
    AtRet({"list"}) =>
        LET got == frame.body.pastes
            limit == frame.req.limit
        IN  /\ Len(got) <= (IF limit > 0 THEN limit ELSE 0)
            /\ Len(got) <= Len(pastes)
            /\ \A i \in 1..Len(got) : got[i].id = pastes[i].k

\* C12: a read of an id that is not in the index, or whose content file is
\* missing, answers 404 and leaves the index, the content files and the
\* snapshot as they were; a burn-after-read record without content file stays.
C12_ReadNotFound ==
    (/\ AtRet(ReadOps)
     /\ \/ ReqId \notin Keys(frame.entry.pastes)
        \/ IsNone(frame.entry.files[ReqId]))
    => /\ frame.status = 404
       /\ Untouched

\* C12 witness: a read of a burn-after-read record whose content file is
\* missing has been answered 404 and the record is still in the index
C12_Witness ==
    /\ AtRet(ReadOps)
    /\ ReqId \in Keys(frame.entry.pastes)
    /\ Lookup(frame.entry.pastes, ReqId).burn_after_read
    /\ IsNone(frame.entry.files[ReqId])
    /\ frame.status = 404
    /\ ReqId \in Keys(pastes)

\* C13: whenever no handler is running, when a response is ready and when
\* startup has completed, the snapshot on disk gives back the in-memory
\* index, records and order; and the index a restart loads is the snapshot it
\* read without the records that expired before the load time (as claimed;
\* a handler that a failed write aborts leaves the index ahead of the
\* snapshot).
C13_SnapshotIsIndex ==
    /\ pc \in {"idle", "ret", "started"} => SnapshotIndex(index_file) = pastes
    /\ pc = "started" =>
        pastes = SelectSeq(SnapshotIndex(frame.entry.index_file),
                           LAMBDA e : ~Before(e.v, clock))

\* C14: a read of a live record whose expires_at has passed still answers 200
\* with its content, a list still reports it, and no request handler removes
\* a record for being expired: after any handler the expired records it found
\* are still in the index, except the one it deleted or burnt on request.
C14_ExpiryOnlyAtLoad ==
    /\ (/\ AtRet(ReadOps)
        /\ ReqId \in Keys(frame.entry.pastes)
        /\ ~IsNone(frame.entry.files[ReqId])
        /\ Before(Lookup(frame.entry.pastes, ReqId), clock))
       => /\ frame.status = 200
          /\ frame.body.content = ReadText(Val(frame.entry.files[ReqId]))
    /\ (AtRet({"list"}) /\ frame.req.limit >= Len(pastes))
       => {frame.body.pastes[i].id : i \in 1..Len(frame.body.pastes)}
            = Keys(pastes)
    /\ pc = "ret" =>
        LET target == IF frame.req.op \in ReadOps \cup {"delete"}
                      THEN {frame.req.paste_id} ELSE {}
        IN  \A i \in Keys(frame.entry.pastes) \ target :
                Before(Lookup(frame.entry.pastes, i), clock)
                    => i \in Keys(pastes)

\* C14 witness: a read of a record whose expires_at has passed has been
\* answered 200
C14_Witness ==
    /\ AtRet(ReadOps)
    /\ frame.status = 200
    /\ ReqId \in Keys(frame.entry.pastes)
    /\ Before(Lookup(frame.entry.pastes, ReqId), clock)

\* C15: a create that is generating its id can always leave the loop, with a
\* free id or with an error (as claimed; the code has no exit from the loop
\* when every id is live, and retries forever)
C15_CreateCanEnd ==
    pc = "generate_id" => ENABLED (GenerateId /\ pc' # pc)

\* a read of a live paste without burn_after_read answers 200, and it, a
\* list, a health or a root request leave index, files and snapshot untouched
ReadOnlyChangesNothing ==
    /\ AtRet({"list", "health", "root"}) => frame.status = 200 /\ Untouched
    /\ (/\ AtRet(ReadOps)
        /\ ReqId \in Keys(frame.entry.pastes)
        /\ ~IsNone(frame.entry.files[ReqId])
        /\ ~Lookup(frame.entry.pastes, ReqId).burn_after_read)
       => frame.status = 200 /\ Untouched

\* C16: in every step, a record that is in the index before and after keeps
\* all its fields and its written content file keeps its bytes; and a list,
\* a health or root request and a read of a paste without burn_after_read
\* leave the index, the content files and the snapshot as they were, the read
\* answering 200 every time.
C16_ImmutableReadOnly ==
    [][/\ \A i \in Keys(pastes) \cap Keys(pastes') :
            /\ Lookup(pastes', i) = Lookup(pastes, i)
            /\ ~IsNone(files[i]) => files'[i] = files[i]
       /\ ReadOnlyChangesNothing']_vars

\* C16 witness: a read of a paste without burn_after_read has been answered
\* 200 with two pastes live
C16_Witness ==
    /\ AtRet(ReadOps)
    /\ frame.status = 200
    /\ ReqId \in Keys(pastes)
    /\ ~Lookup(pastes, ReqId).burn_after_read
    /\ Len(pastes) = 2

\* C17: the record a create has just inserted has an expires_at exactly when
\* expires_in_hours was given and positive, and every record of the index
\* that has an expires_at has it strictly after its created_at.
C17_ExpiresAt ==
    /\ pc = "save_content" =>
        LET hours == frame.req.data.expires_in_hours
            meta == Lookup(pastes, frame.paste_id)
        IN  ~IsNone(meta.expires_at) <=> (~IsNone(hours) /\ Val(hours) > 0)
    /\ \A i \in 1..Len(pastes) :
        ~IsNone(pastes[i].v.expires_at) =>
            FromIsoformat(Val(pastes[i].v.expires_at))
                > FromIsoformat(pastes[i].v.created_at)

\* C17 witness: a create with a negative expires_in_hours has inserted a
\* record without expires_at
C17_Witness ==
    /\ pc = "save_content"
    /\ frame.req.data.expires_in_hours = Some(-1)
    /\ IsNone(Lookup(pastes, frame.paste_id).expires_at)

\* C18: with crashes between any two statements, the content of a
\* burn-after-read paste is returned at most once, and when a read returns it
\* the record is already out of the snapshot on disk and the content file is
\* gone.
C18_AtMostOnceAcrossCrashes ==
    /\ \A i \in Ids : hist[i].served <= 1
    /\ (/\ AtRet(ReadOps)
        /\ frame.status = 200
        /\ ReqId \in Keys(frame.entry.pastes)
        /\ Lookup(frame.entry.pastes, ReqId).burn_after_read)
       => ReqId \notin SnapshotKeys /\ IsNone(files[ReqId])

\* C18 witness: after a crash between the burn and the snapshot write the
\* record is back in the index, and a read of it has been answered 404
C18_Witness ==
    /\ AtRet(ReadOps)
    /\ frame.status = 404
    /\ ReqId \in Keys(pastes)
    /\ hist[ReqId].removed = "burned"
    /\ hist[ReqId].served = 0

\* C19 as claimed: when startup has completed, every id of the index has a
\* content file and every content file belongs to an id of the index
C19_NoDanglingNoOrphan ==
    pc = "started" =>
        \A i \in Ids : (i \in Keys(pastes)) <=> ~IsNone(files[i])

\* C19 amended: when startup has completed and between requests, a record
\* without content file is one whose removal (delete, burn or sweep) had
\* unlinked the file, and a content file without record is one written for a
\* create; load() repairs neither.
C19_OnlyInterrupted ==
    pc \in {"started", "idle"} =>
        \A i \in Ids :
            /\ (i \in Keys(pastes) /\ IsNone(files[i]))
               => hist[i].removed # "no"
            /\ (i \notin Keys(pastes) /\ ~IsNone(files[i]))
               => hist[i].removed = "no" /\ ~IsNone(hist[i].submitted)

\* C19 witness: startup has completed with a record whose content file is
\* missing
C19_Witness ==
    /\ pc = "started"
    /\ \E i \in Keys(pastes) : IsNone(files[i])

====
